---- MODULE Spec2Model ----
(***************************************************************************)
(* Sky Forecaster: the AQI engine (backend/services/aqi_calculator.py),    *)
(* the aggregation pipeline (backend/services/data_fetcher.py) and the     *)
(* synthetic generators and forecast builders of the facade                *)
(* (backend/app.py).                                                       *)
(*                                                                         *)
(* Concentrations are integers in hundredths of a microgram per cubic      *)
(* metre, so 12.0 is 1200 and 12.05 is 1205.  An optional value (Python's  *)
(* None) is a sequence of length at most one: <<>> is None, <<v>> is v.    *)
(***************************************************************************)
EXTENDS Integers, Sequences, FiniteSets, TLC

\* ------------------------------------------------------------------ bounds
\* The grid of concentrations reaches Near resolution steps to either side of
\* every breakpoint of a table.
Near == 5
\* The longest pollutant mapping given to calculate_overall_aqi.
MaxEntries == 3

VARIABLES
    request,     \* the engine call under way: its operation and its inputs
    response,    \* the outcomes of the calls made for it so far, in order
    halfway,     \* the inputs whose interpolated double lies above an exact half
    pc,          \* where the get_combined_data request stands
    coordinate,  \* its arguments lat and lon, in whole degrees
    config,      \* what DataFetcher.__init__ found: keys, login, library
    calls,       \* the provider calls of the request and how each ended
    openaq_data, \* get_combined_data's local openaq_data, once assigned
    tempo_data,  \* get_combined_data's local tempo_data, once assigned
    result,      \* what get_combined_data returned or raised
    now,         \* the clock datetime.utcnow() reads, in hours
    random       \* the generator behind random.uniform: its draws to come

engineVars == <<request, response, halfway>>
fetchVars == <<pc, coordinate, config, calls, openaq_data, tempo_data, result>>
appVars == <<now, random>>
vars == <<request, response, halfway, pc, coordinate, config, calls,
          openaq_data, tempo_data, result, now, random>>

None == <<>>
Some(v) == <<v>>

\* ------------------------------------------------- aqi_calculator.py: tables
\* AQICalculator.BREAKPOINTS, rows (c_low, c_high, aqi_low, aqi_high), the
\* concentrations in hundredths.
BREAKPOINTS ==
    [ pm25 |-> << <<0, 1200, 0, 50>>,
                  <<1210, 3540, 51, 100>>,
                  <<3550, 5540, 101, 150>>,
                  <<5550, 15040, 151, 200>>,
                  <<15050, 25040, 201, 300>>,
                  <<25050, 50040, 301, 500>> >>,
      pm10 |-> << <<0, 5400, 0, 50>>,
                  <<5500, 15400, 51, 100>>,
                  <<15500, 25400, 101, 150>>,
                  <<25500, 35400, 151, 200>>,
                  <<35500, 42400, 201, 300>>,
                  <<42500, 60400, 301, 500>> >>,
      no2  |-> << <<0, 5300, 0, 50>>,
                  <<5400, 10000, 51, 100>>,
                  <<10100, 36000, 101, 150>>,
                  <<36100, 64900, 151, 200>>,
                  <<65000, 124900, 201, 300>>,
                  <<125000, 204900, 301, 500>> >>,
      o3   |-> << <<0, 5400, 0, 50>>,
                  <<5500, 7000, 51, 100>>,
                  <<7100, 8500, 101, 150>>,
                  <<8600, 10500, 151, 200>>,
                  <<10600, 20000, 201, 300>>,
                  <<20100, 40000, 301, 500>> >> ]

\* The index returned above the last range.
AqiCeiling == 500

\* The six pollutant kinds the pipeline tracks; only four have a table.
PollutantKinds == {"pm25", "pm10", "no2", "o3", "co", "so2"}

\* `pollutant not in cls.BREAKPOINTS`
HasTable(pollutant) == pollutant \in DOMAIN BREAKPOINTS

\* ------------------------------------------- aqi_calculator.py: calculate_aqi
\* `if c_low <= concentration <= c_high`
InRangeOpen(row, concentration) == row[1] < concentration /\ concentration <= row[2]
InRange(row, concentration) == row[1] <= concentration /\ concentration <= row[2]

\* The for loop over the rows: the first row that holds the concentration, or 0.
RECURSIVE FirstRange(_, _, _)
FirstRange(rows, i, concentration) ==
    IF i > Len(rows) THEN 0
    ELSE IF InRange(rows[i], concentration) THEN i
    ELSE FirstRange(rows, i + 1, concentration)

\* round(x) of x = base + num/den (den > 0, num >= 0).  Python rounds the double
\* that the interpolation produced, to the nearest integer and to the even one
\* at a half.  The double differs from the exact x by rounding error far below
\* 1/(2*den), so the result is the nearest integer whenever x is not exactly
\* half-way.  Where x is exactly half-way the double may lie on either side of
\* the half (calculate_aqi('pm25', 1.08) is 5, the exact value is 4.5): up says
\* on which side this input falls.
Round(base, num, den, up) ==
    LET q == num \div den
        r == num % den
    IN  IF 2 * r < den THEN base + q
        ELSE IF 2 * r > den THEN base + q + 1
        ELSE IF up THEN base + q + 1 ELSE base + q

\* `((aqi_high - aqi_low) / (c_high - c_low)) * (concentration - c_low) + aqi_low`,
\* rounded.
Interpolate(row, concentration, up) ==
    Round(row[3], (row[4] - row[3]) * (concentration - row[1]), row[2] - row[1], up)

\* `if concentration > cls.BREAKPOINTS[pollutant][-1][1]: return 500` else 0.
AboveAllNoClamp(rows, concentration) == 0
AboveAll(rows, concentration) ==
    IF concentration > rows[Len(rows)][2] THEN AqiCeiling ELSE 0

Returned(aqi, pollutant) == [raised |-> FALSE, aqi |-> aqi, pollutant |-> pollutant]
ValueError(pollutant) == [raised |-> TRUE, aqi |-> 0, pollutant |-> pollutant]

\* AQICalculator.calculate_aqi.
calculate_aqi(pollutant, concentration) ==
    IF ~HasTable(pollutant) THEN ValueError(pollutant)
    ELSE LET rows == BREAKPOINTS[pollutant]
             i == FirstRange(rows, 1, concentration)
         IN  IF i # 0
             THEN Returned(Interpolate(rows[i], concentration,
                                       <<pollutant, concentration>> \in halfway),
                           pollutant)
             ELSE Returned(AboveAll(rows, concentration), pollutant)

\* ----------------------------------- aqi_calculator.py: calculate_overall_aqi
\* `if concentration is not None and concentration > 0`
Counted(concentration) == concentration # None /\ concentration[1] > 0

\* `if aqi > max_aqi`
Below(aqi, max_aqi) == aqi < max_aqi
Exceeds(aqi, max_aqi) == aqi > max_aqi

\* `except ValueError: continue` around the call of calculate_aqi.
ValueErrorPropagates == FALSE
ValueErrorCaught == TRUE

\* The loop over pollutants.items(), from entry i on.
RECURSIVE OverallLoop(_, _, _, _)
OverallLoop(pollutants, i, max_aqi, primary_pollutant) ==
    IF i > Len(pollutants)
    THEN [raised |-> FALSE, aqi |-> max_aqi,
          primary_pollutant |-> primary_pollutant]
    ELSE LET pollutant == pollutants[i].pollutant
             concentration == pollutants[i].concentration
             o == calculate_aqi(pollutant, concentration[1])
         IN  IF ~Counted(concentration)
             THEN OverallLoop(pollutants, i + 1, max_aqi, primary_pollutant)
             ELSE IF o.raised
             THEN IF ValueErrorCaught
                  THEN OverallLoop(pollutants, i + 1, max_aqi, primary_pollutant)
                  ELSE [raised |-> TRUE, aqi |-> max_aqi,
                        primary_pollutant |-> primary_pollutant]
             ELSE IF Exceeds(o.aqi, max_aqi)
             THEN OverallLoop(pollutants, i + 1, o.aqi, pollutant)
             ELSE OverallLoop(pollutants, i + 1, max_aqi, primary_pollutant)

\* AQICalculator.calculate_overall_aqi.
calculate_overall_aqi(pollutants) ==
    IF pollutants = <<>>
    THEN [raised |-> FALSE, aqi |-> 0, primary_pollutant |-> "unknown"]
    ELSE OverallLoop(pollutants, 1, 0, "unknown")

\* ------------------------- aqi_calculator.py: get_aqi_category, get_aqi_color
get_aqi_category_strict(aqi) ==
    IF aqi < 50 THEN "Good"
    ELSE IF aqi < 100 THEN "Moderate"
    ELSE IF aqi < 150 THEN "Unhealthy for Sensitive Groups"
    ELSE IF aqi < 200 THEN "Unhealthy"
    ELSE IF aqi < 300 THEN "Very Unhealthy"
    ELSE "Hazardous"
get_aqi_category(aqi) ==
    IF aqi <= 50 THEN "Good"
    ELSE IF aqi <= 100 THEN "Moderate"
    ELSE IF aqi <= 150 THEN "Unhealthy for Sensitive Groups"
    ELSE IF aqi <= 200 THEN "Unhealthy"
    ELSE IF aqi <= 300 THEN "Very Unhealthy"
    ELSE "Hazardous"

get_aqi_color(aqi) ==
    IF aqi <= 50 THEN "#00e400"
    ELSE IF aqi <= 100 THEN "#ffff00"
    ELSE IF aqi <= 150 THEN "#ff7e00"
    ELSE IF aqi <= 200 THEN "#ff0000"
    ELSE IF aqi <= 300 THEN "#8f3f97"
    ELSE "#7e0023"

\* --------------------------------------- data_fetcher.py: the observations
Entry(key, value) == [pollutant |-> key, concentration |-> value]

\* The dictionary every adapter returns.  measurements and weather are
\* dictionaries in insertion order; source is the label, its parts joined by
\* " + " in the code.
Observation(lat, lon, measurements, weather, source) ==
    [latitude |-> lat, longitude |-> lon, measurements |-> measurements,
     weather |-> weather, source |-> source]

Abs(x) == IF x < 0 THEN 0 - x ELSE x

\* DataFetcher._get_mock_air_quality_data, for whole degrees.  Every product
\* (lat * 1.5, lon * 2.2, ...) then has at most one decimal, so round(x, 1) and
\* round(x, 2) return the exact value; the values are in hundredths.  The label
\* ends with the coordinate, which latitude and longitude hold here.
MockLabel == "Mock Data (OpenAQ unavailable)"
_get_mock_air_quality_data_of_the_hour(lat, lon) ==
    Observation(lat, lon,
        << Entry("pm25", Some(1000 + ((Abs(lat + now) * 200) % 2000))) >>,
        << Entry("temperature", Some(1500 + ((Abs(lat) * 80) % 2500))) >>,
        <<MockLabel>>)
_get_mock_air_quality_data(lat, lon) ==
    Observation(lat, lon,
        << Entry("pm25", Some(1000 + ((Abs(lat) * 200) % 2000) + ((Abs(lon) * 300) % 1500))),
           Entry("pm10", Some(2500 + ((Abs(lat) * 150) % 2500) + ((Abs(lon) * 200) % 2000))),
           Entry("no2", Some(1500 + ((Abs(lat) * 250) % 1800) + ((Abs(lon) * 180) % 1200))),
           Entry("o3", Some(4500 + ((Abs(lat) * 120) % 2200) + ((Abs(lon) * 220) % 1800))) >>,
        << Entry("temperature", Some(1500 + ((Abs(lat) * 80) % 2500))),
           Entry("humidity", Some(4000 + ((Abs(lon) * 120) % 4000))),
           Entry("pressure", Some(100000 + ((Abs(lat * lon) * 100) % 5000))),
           Entry("wind_speed", Some(300 + ((Abs(lat + lon) * 100) % 800))),
           Entry("wind_direction", Some((Abs(lat * lon) * 100) % 36000)) >>,
        <<MockLabel>>)

\* DataFetcher.fetch_nasa_tempo_data: None without the Earthdata login, else
\* the fixed readings of the adapter (it has no weather key).
fetch_nasa_tempo_data(lat, lon, nasa_authenticated) ==
    IF ~nasa_authenticated THEN None
    ELSE Some(Observation(lat, lon,
                 << Entry("no2", Some(2500)), Entry("o3", Some(6000)),
                    Entry("pm25", Some(1500)) >>,
                 <<>>, <<"NASA TEMPO">>))

\* The dictionary _combine_data_sources returns when it has nothing.
NoDataAvailable == Observation(0, 0, <<>>, <<>>, <<"No data available">>)

HasKey(measurements, key) ==
    \E i \in 1..Len(measurements) : measurements[i].pollutant = key

\* measurements.get(key): None when the key is missing and when its value is
\* None.
ValueOf(measurements, key) ==
    IF HasKey(measurements, key)
    THEN (CHOOSE e \in {measurements[i] : i \in 1..Len(measurements)} :
              e.pollutant = key).concentration
    ELSE None

KeysOf(measurements) == {measurements[i].pollutant : i \in 1..Len(measurements)}

\* `for param, value in tempo_measurements.items(): if param not in
\* combined_measurements: combined_measurements[param] = value`
RECURSIVE FillGapsOverwriting(_, _)
FillGapsOverwriting(combined_measurements, tempo_measurements) ==
    IF tempo_measurements = <<>> THEN combined_measurements
    ELSE LET e == Head(tempo_measurements)
             kept == SelectSeq(combined_measurements,
                               LAMBDA x : x.pollutant # e.pollutant)
         IN  FillGapsOverwriting(Append(kept, e), Tail(tempo_measurements))
RECURSIVE FillGaps(_, _)
FillGaps(combined_measurements, tempo_measurements) ==
    IF tempo_measurements = <<>> THEN combined_measurements
    ELSE LET e == Head(tempo_measurements)
         IN  IF HasKey(combined_measurements, e.pollutant)
             THEN FillGaps(combined_measurements, Tail(tempo_measurements))
             ELSE FillGaps(Append(combined_measurements, e), Tail(tempo_measurements))

\* DataFetcher._combine_data_sources.  A dictionary an adapter returned is never
\* empty, so `x or {}` is x unless x is None.
_combine_data_sources(openaq, tempo) ==
    IF openaq = None /\ tempo = None THEN NoDataAvailable
    ELSE LET combined == IF openaq # None THEN openaq[1] ELSE tempo[1]
         IN  IF tempo # None /\ tempo[1].measurements # <<>>
             THEN [combined EXCEPT
                      !.measurements = FillGaps(combined.measurements,
                                                tempo[1].measurements),
                      !.source = Append(combined.source, "TEMPO")]
             ELSE combined

\* ------------------------------------- data_fetcher.py: the provider calls
\* How a provider call can end: the connection fails or times out; the status
\* is an HTTP error; the body is no JSON; the JSON is valid and holds no data;
\* the JSON holds data the adapter cannot process (not the expected shape, a
\* value float() rejects); the JSON holds data.
Outcomes ==
    {"network_failure", "http_error", "undecodable", "empty", "unprocessable", "data"}

\* The exception class the outcome raises in the adapter: "RequestException",
\* "Exception" (any other), or "none".  response.json() raises a
\* RequestException in requests 2.27 and later and a plain ValueError before;
\* the repository pins no version, config says which one is installed.
Raises(outcome) ==
    CASE outcome \in {"network_failure", "http_error"} -> "RequestException"
      [] outcome = "undecodable" ->
             IF config.json_error_is_request_exception
             THEN "RequestException" ELSE "Exception"
      [] outcome = "unprocessable" -> "Exception"
      [] OTHER -> "none"

\* The measurements the adapters build from a payload that holds data.
\* _process_openaq_data keeps the tracked parameters of the results (none, when
\* the results hold other parameters only).
OpenAQMeasurements ==
    { <<>>,
      << Entry("pm25", Some(1200)) >>,
      << Entry("pm10", Some(4500)), Entry("no2", Some(2500)) >> }

\* _fetch_waqi_data always sets its four keys, to None where iaqi has no value.
WAQIMeasurements ==
    { << Entry("pm25", Some(5500)), Entry("pm10", None),
         Entry("no2", None), Entry("o3", None) >>,
      << Entry("pm25", None), Entry("pm10", None),
         Entry("no2", None), Entry("o3", None) >> }

\* _fetch_openweather_data always sets its six keys.
OpenWeatherMeasurements ==
    { << Entry("pm25", Some(800)), Entry("pm10", Some(1500)),
         Entry("no2", None), Entry("o3", Some(6800)),
         Entry("co", Some(20100)), Entry("so2", None) >> }

\* _fetch_airnow_data keys a reading by its lower-cased ParameterName.
AirNowMeasurements ==
    { <<>>,
      << Entry("pm2.5", Some(1200)), Entry("ozone", Some(4000)) >> }

\* `if -125 <= lon <= -66 and 25 <= lat <= 49`
InUSBounds(lat, lon) == -125 <= lon /\ lon <= -66 /\ 25 <= lat /\ lat <= 49

\* The coordinates of the requests: inside and outside the AirNow bounds, the
\* origin, and a pair mirrored through the origin.
Coordinates ==
    { [latitude |-> 40, longitude |-> -100], [latitude |-> 10, longitude |-> 20],
      [latitude |-> -10, longitude |-> -20], [latitude |-> 0, longitude |-> 0] }

Called(provider, outcome) == [provider |-> provider, outcome |-> outcome]

Pending == [status |-> "pending", value |-> None]
Return(observation) == [status |-> "returned", value |-> Some(observation)]

\* get_combined_data's `except Exception`: it returns the mock observation.
Reraise(lat, lon) == [status |-> "raised", value |-> None]
OnException(lat, lon) == Return(_get_mock_air_quality_data(lat, lon))

EngineIdle ==
    /\ request = [op |-> "none"]
    /\ response = <<>>
    /\ halfway = {}

\* The clock stands at the hour the service started and random has not been
\* drawn from.
AppIdle ==
    /\ now = 0
    /\ random = [draws |-> <<>>, next |-> 1]

\* get_combined_data(lat, lon) is entered.
InitFetch ==
    /\ EngineIdle
    /\ AppIdle
    /\ pc = "openaq_v2"
    /\ coordinate \in Coordinates
    /\ config \in [openweather_api_key : BOOLEAN, worldaq_api_key : BOOLEAN,
                   nasa_authenticated : BOOLEAN,
                   json_error_is_request_exception : BOOLEAN]
    /\ calls = <<>>
    /\ openaq_data = None
    /\ tempo_data = None
    /\ result = Pending

\* fetch_current_conditions_openaq returns value: get_combined_data goes on to
\* fetch_nasa_tempo_data.
OpenAQReturns(value) ==
    /\ openaq_data' = value
    /\ pc' = "tempo"
    /\ UNCHANGED <<tempo_data, result>>

Mock == Some(_get_mock_air_quality_data(coordinate.latitude, coordinate.longitude))

\* fetch_current_conditions_openaq: the request to OpenAQ v2.
QueryOpenAQv2 ==
    /\ pc = "openaq_v2"
    /\ \E outcome \in Outcomes :
        /\ calls' = Append(calls, Called("openaq_v2", outcome))
        /\ \/ /\ Raises(outcome) = "RequestException"
              /\ pc' = "openaq_v3"
              /\ UNCHANGED <<openaq_data, tempo_data, result>>
           \/ /\ Raises(outcome) = "Exception"
              /\ OpenAQReturns(Mock)
           \/ /\ outcome = "empty"
              /\ OpenAQReturns(None)
           \/ /\ outcome = "data"
              /\ \E m \in OpenAQMeasurements :
                     OpenAQReturns(Some(Observation(coordinate.latitude,
                         coordinate.longitude, m, <<>>, <<"OpenAQ">>)))
    /\ UNCHANGED <<engineVars, appVars, coordinate, config>>

\* The request to OpenAQ v3, made in the handler of v2's RequestException: an
\* exception of another class raised here leaves
\* fetch_current_conditions_openaq and reaches get_combined_data's handler.
QueryOpenAQv3 ==
    /\ pc = "openaq_v3"
    /\ \E outcome \in Outcomes :
        /\ calls' = Append(calls, Called("openaq_v3", outcome))
        /\ \/ /\ Raises(outcome) = "RequestException"
              /\ pc' = "waqi"
              /\ UNCHANGED <<openaq_data, tempo_data, result>>
           \/ /\ Raises(outcome) = "Exception"
              /\ result' = OnException(coordinate.latitude, coordinate.longitude)
              /\ pc' = "done"
              /\ UNCHANGED <<openaq_data, tempo_data>>
           \/ /\ outcome = "empty"
              /\ OpenAQReturns(Mock)
           \/ /\ outcome = "data"
              /\ \E m \in OpenAQMeasurements :
                     OpenAQReturns(Some(Observation(coordinate.latitude,
                         coordinate.longitude, m, <<>>, <<"OpenAQ">>)))
    /\ UNCHANGED <<engineVars, appVars, coordinate, config>>

\* _fetch_realtime_data after an adapter returned None: the next adapter it
\* tries, or "mock".
AfterOpenWeatherRetries ==
    IF Len(SelectSeq(calls, LAMBDA c : c.provider = "waqi")) < 2 THEN "waqi"
    ELSE "mock"
AfterOpenWeather ==
    IF InUSBounds(coordinate.latitude, coordinate.longitude) THEN "airnow" ELSE "mock"
AfterWAQIRestarts == "openaq_v2"
AfterWAQI == IF config.openweather_api_key THEN "openweather" ELSE AfterOpenWeather

\* _fetch_realtime_data goes on to `next`.
RealtimeGoesOn(next) ==
    IF next = "mock" THEN OpenAQReturns(Mock)
    ELSE /\ pc' = next
         /\ UNCHANGED <<openaq_data, tempo_data, result>>

\* _fetch_waqi_data: every exception is caught and gives None.
QueryWAQI ==
    /\ pc = "waqi"
    /\ \E outcome \in Outcomes :
        /\ calls' = Append(calls, Called("waqi", outcome))
        /\ \/ /\ outcome = "data"
              /\ \E m \in WAQIMeasurements :
                     OpenAQReturns(Some(Observation(coordinate.latitude,
                         coordinate.longitude, m, <<>>,
                         <<"World Air Quality Index (Real-time)">>)))
           \/ /\ outcome # "data"
              /\ RealtimeGoesOn(AfterWAQI)
    /\ UNCHANGED <<engineVars, appVars, coordinate, config>>

\* _fetch_openweather_data.
QueryOpenWeather ==
    /\ pc = "openweather"
    /\ \E outcome \in Outcomes :
        /\ calls' = Append(calls, Called("openweather", outcome))
        /\ \/ /\ outcome = "data"
              /\ \E m \in OpenWeatherMeasurements :
                     OpenAQReturns(Some(Observation(coordinate.latitude,
                         coordinate.longitude, m, <<>>,
                         <<"OpenWeatherMap (Real-time)">>)))
           \/ /\ outcome # "data"
              /\ RealtimeGoesOn(AfterOpenWeather)
    /\ UNCHANGED <<engineVars, appVars, coordinate, config>>

\* _fetch_airnow_data.
QueryAirNow ==
    /\ pc = "airnow"
    /\ \E outcome \in Outcomes :
        /\ calls' = Append(calls, Called("airnow", outcome))
        /\ \/ /\ outcome = "data"
              /\ \E m \in AirNowMeasurements :
                     OpenAQReturns(Some(Observation(coordinate.latitude,
                         coordinate.longitude, m, <<>>, <<"AirNow (Real-time)">>)))
           \/ /\ outcome # "data"
              /\ RealtimeGoesOn("mock")
    /\ UNCHANGED <<engineVars, appVars, coordinate, config>>

\* get_combined_data: tempo_data = self.fetch_nasa_tempo_data(lat, lon).
FetchTempo ==
    /\ pc = "tempo"
    /\ tempo_data' = fetch_nasa_tempo_data(coordinate.latitude,
                         coordinate.longitude, config.nasa_authenticated)
    /\ calls' = IF config.nasa_authenticated
                THEN Append(calls, Called("tempo", "data")) ELSE calls
    /\ pc' = "combine"
    /\ UNCHANGED <<engineVars, appVars, coordinate, config, openaq_data, result>>

\* get_combined_data: it returns _combine_data_sources(openaq_data, tempo_data).
Combine ==
    /\ pc = "combine"
    /\ result' = Return(_combine_data_sources(openaq_data, tempo_data))
    /\ pc' = "done"
    /\ UNCHANGED <<engineVars, appVars, coordinate, config, calls, openaq_data, tempo_data>>

NextFetch ==
    \/ QueryOpenAQv2 \/ QueryOpenAQv3
    \/ QueryWAQI \/ QueryOpenWeather \/ QueryAirNow
    \/ FetchTempo \/ Combine

SpecFetch == InitFetch /\ [][NextFetch]_vars

\* Every request of an adapter carries a timeout and the adapters run one
\* after the other in one thread: a step that can be taken is taken.
SpecFetchFair == SpecFetch /\ WF_vars(NextFetch)

\* ------------------------------------------------------- inputs of the engine
\* Hundredths per step of the grid: hundredths for pm25, tenths for the others.
Resolution(pollutant) == IF pollutant = "pm25" THEN 1 ELSE 10

Boundaries(pollutant) ==
    UNION {{BREAKPOINTS[pollutant][i][1], BREAKPOINTS[pollutant][i][2]} :
           i \in 1..Len(BREAKPOINTS[pollutant])}

\* The concentrations calculate_aqi is called with: around every breakpoint of
\* the table; for a pollutant without a table, around zero.
Concentrations(pollutant) ==
    IF HasTable(pollutant)
    THEN {b + k * Resolution(pollutant) :
          b \in Boundaries(pollutant), k \in (0 - Near)..Near}
    ELSE {k * Resolution(pollutant) : k \in (0 - Near)..Near}

\* The values a mapping given to calculate_overall_aqi holds for a pollutant:
\* absent (None), zero, a value whose index is 0, the value of
\* create_mock_air_quality_data and the top of the first range (index 50); for
\* pm25 also 1.08, whose exact index is an exact half.
MappingValues(pollutant) ==
    CASE pollutant = "pm25" ->
             {None, Some(0), Some(10), Some(108), Some(1550), Some(1200)}
      [] pollutant = "pm10" -> {None, Some(0), Some(50), Some(4500), Some(5400)}
      [] pollutant = "no2"  -> {None, Some(0), Some(50), Some(2500), Some(5300)}
      [] pollutant = "o3"   -> {None, Some(0), Some(50), Some(6000), Some(5400)}
      [] OTHER -> {None, Some(0), Some(1000)}

\* The key orders of the mappings of at most n entries: sequences of distinct
\* pollutant kinds, in insertion order.
RECURSIVE KeyOrders(_)
KeyOrders(n) ==
    IF n = 0 THEN {<<>>}
    ELSE LET shorter == KeyOrders(n - 1)
         IN  shorter \cup
             {Append(ks, p) : ks \in {s \in shorter : Len(s) = n - 1},
                              p \in PollutantKinds}

Distinct(ks) == \A i, j \in 1..Len(ks) : ks[i] = ks[j] => i = j

\* The mappings with the keys ks, from key i on.
RECURSIVE WithValues(_, _)
WithValues(ks, i) ==
    IF i > Len(ks) THEN {<<>>}
    ELSE {<<[pollutant |-> ks[i], concentration |-> c]>> \o rest :
          c \in MappingValues(ks[i]), rest \in WithValues(ks, i + 1)}

\* The exact index of this input is an exact half.
IsHalfway(pollutant, concentration) ==
    /\ HasTable(pollutant)
    /\ LET rows == BREAKPOINTS[pollutant]
           i == FirstRange(rows, 1, concentration)
       IN  /\ i # 0
           /\ 2 * (((rows[i][4] - rows[i][3]) * (concentration - rows[i][1]))
                   % (rows[i][2] - rows[i][1])) = rows[i][2] - rows[i][1]

\* The choices of halfway for a set of inputs <<pollutant, concentration>>.
HalfwayChoices(inputs) == SUBSET {x \in inputs : IsHalfway(x[1], x[2])}

\* -------------------------------------------------------- the engine's calls
InitCalculateAqi ==
    \E p \in PollutantKinds : \E c1, c2 \in Concentrations(p) :
        /\ c1 <= c2
        /\ request = [op |-> "calculate_aqi", pollutant |-> p,
                      concentrations |-> <<c1, c2>>]
        /\ response = <<>>
        /\ halfway \in HalfwayChoices({<<p, c1>>, <<p, c2>>})

\* app.py create_mock_air_quality_data: the mapping it gives the engine.
MockPollutants ==
    << [pollutant |-> "pm25", concentration |-> Some(1550)],
       [pollutant |-> "pm10", concentration |-> Some(4500)],
       [pollutant |-> "no2", concentration |-> Some(2500)],
       [pollutant |-> "o3", concentration |-> Some(6000)] >>

InitCalculateOverallAqi ==
    \E ks \in KeyOrders(MaxEntries) \cup {<<"pm25", "pm10", "no2", "o3">>} :
      \E m \in WithValues(ks, 1) :
        /\ Distinct(ks)
        /\ Len(ks) > MaxEntries => m = MockPollutants
        /\ request = [op |-> "calculate_overall_aqi", pollutants |-> m]
        /\ response = <<>>
        /\ halfway \in HalfwayChoices(
               {<<m[i].pollutant, m[i].concentration[1]>> :
                i \in {j \in 1..Len(m) : m[j].concentration # None}})

InitClassify ==
    \E a \in 0..AqiCeiling :
        /\ request = [op |-> "classify", aqi |-> a]
        /\ response = <<>>
        /\ halfway = {}

\* No get_combined_data request is under way.
FetchIdle ==
    /\ pc = "idle"
    /\ coordinate = [latitude |-> 0, longitude |-> 0]
    /\ config = [openweather_api_key |-> FALSE, worldaq_api_key |-> FALSE,
                 nasa_authenticated |-> FALSE,
                 json_error_is_request_exception |-> FALSE]
    /\ calls = <<>>
    /\ openaq_data = None
    /\ tempo_data = None
    /\ result = None

InitAqi ==
    /\ InitCalculateAqi \/ InitCalculateOverallAqi \/ InitClassify
    /\ FetchIdle
    /\ AppIdle

\* One call of calculate_aqi, on the next concentration of the request.
CalculateAqi ==
    /\ request.op = "calculate_aqi"
    /\ Len(response) < Len(request.concentrations)
    /\ response' = Append(response,
           calculate_aqi(request.pollutant,
                         request.concentrations[Len(response) + 1]))
    /\ UNCHANGED <<request, halfway, fetchVars, appVars>>

CalculateOverallAqi ==
    /\ request.op = "calculate_overall_aqi"
    /\ response = <<>>
    /\ response' = <<calculate_overall_aqi(request.pollutants)>>
    /\ UNCHANGED <<request, halfway, fetchVars, appVars>>

\* app.py calculate_aqi: the category, then the colour, of one index.
GetAqiCategory ==
    /\ request.op = "classify"
    /\ response = <<>>
    /\ response' = <<get_aqi_category(request.aqi)>>
    /\ UNCHANGED <<request, halfway, fetchVars, appVars>>

GetAqiColor ==
    /\ request.op = "classify"
    /\ Len(response) = 1
    /\ response' = Append(response, get_aqi_color(request.aqi))
    /\ UNCHANGED <<request, halfway, fetchVars, appVars>>

NextAqi == CalculateAqi \/ CalculateOverallAqi \/ GetAqiCategory \/ GetAqiColor

SpecAqi == InitAqi /\ [][NextAqi]_vars

\* ------------------------------------------------- the synthetic observations
\* The bounds of the log of generator calls and of the clock.
MaxCalls == 3
MaxClock == 2

\* `'timestamp': datetime.utcnow().isoformat()` of an adapter's dictionary.
Timestamped(observation, t) ==
    [f \in DOMAIN observation \cup {"timestamp"} |->
        IF f = "timestamp" THEN t ELSE observation[f]]

PollutantFields == <<"pm25", "pm10", "no2", "o3", "co", "so2">>

\* models/air_quality.py AirQualityData: its six pollutant fields are kept as
\* measurements and its five weather fields as weather, in declaration order;
\* a field not given is None.
AirQualityData(lat, lon, overall, timestamp, pollutants, weather) ==
    [latitude |-> lat, longitude |-> lon, aqi |-> overall.aqi,
     primary_pollutant |-> overall.primary_pollutant, timestamp |-> timestamp,
     measurements |-> [k \in 1..Len(PollutantFields) |->
                          Entry(PollutantFields[k], ValueOf(pollutants, PollutantFields[k]))],
     weather |-> weather]

\* The weather both forecast builders give the prediction of hour offset i, in
\* hundredths; create_mock_air_quality_data gives that of offset 0.
Weather(i) ==
    << Entry("temperature", Some(2250 + i * 10)),
       Entry("humidity", Some(6500 - i * 20)),
       Entry("pressure", Some(101325 + i * 10)),
       Entry("wind_speed", Some(520 + i * 5)),
       Entry("wind_direction", Some(18000 + i * 200)) >>

\* app.py create_mock_air_quality_data.
create_mock_air_quality_data(lat, lon) ==
    AirQualityData(lat, lon, calculate_overall_aqi(MockPollutants), now,
                   MockPollutants, Weather(0))

\* A log of calls of the two generators starts.
InitMock ==
    /\ request = [op |-> "mock"]
    /\ response = <<>>
    /\ halfway \in HalfwayChoices(
           {<<MockPollutants[i].pollutant, MockPollutants[i].concentration[1]>> :
            i \in 1..Len(MockPollutants)})
    /\ FetchIdle
    /\ AppIdle

\* _get_mock_air_quality_data(lat, lon) is called and its dictionary logged.
GetMockAirQualityData ==
    /\ request.op = "mock"
    /\ Len(response) < MaxCalls
    /\ \E c \in Coordinates :
           response' = Append(response,
               [generator |-> "_get_mock_air_quality_data",
                latitude |-> c.latitude, longitude |-> c.longitude,
                data |-> Timestamped(
                    _get_mock_air_quality_data(c.latitude, c.longitude), now)])
    /\ UNCHANGED <<request, halfway, fetchVars, appVars>>

\* create_mock_air_quality_data(lat, lon) is called and its object logged.
CreateMockAirQualityData ==
    /\ request.op = "mock"
    /\ Len(response) < MaxCalls
    /\ \E c \in Coordinates :
           response' = Append(response,
               [generator |-> "create_mock_air_quality_data",
                latitude |-> c.latitude, longitude |-> c.longitude,
                data |-> create_mock_air_quality_data(c.latitude, c.longitude)])
    /\ UNCHANGED <<request, halfway, fetchVars, appVars>>

\* An hour passes.
Tick ==
    /\ request.op = "mock"
    /\ now < MaxClock
    /\ now' = now + 1
    /\ UNCHANGED <<engineVars, fetchVars, random>>

NextMock == GetMockAirQualityData \/ CreateMockAirQualityData \/ Tick

SpecMock == InitMock /\ [][NextMock]_vars

\* ---------------------------------------------- app.py: the forecast builders
\* `hours > 168` is refused by the forecast route.
MaxHours == 168
\* The longest cycle of draws of a generator.
MaxDraws == 2

\* range(start, stop, step) for a positive step, as a sequence.
RECURSIVE range_through(_, _, _)
range_through(start, stop, step) ==
    IF start > stop THEN <<>>
    ELSE <<start>> \o range_through(start + step, stop, step)
RECURSIVE range(_, _, _)
range(start, stop, step) ==
    IF start >= stop THEN <<>>
    ELSE <<start>> \o range(start + step, stop, step)

\* The factors random.uniform(0.8, 1.2) is taken to draw, in percent: both
\* ends and the middle.
Factors == {80, 100, 120}

\* A generator delivers its draws in a cycle; with a cycle of n draws, every
\* outcome of n consecutive draws occurs.
Generators ==
    {[draws |-> d, next |-> 1] : d \in UNION {[1..n -> Factors] : n \in 1..MaxDraws}}

\* random.uniform(0.8, 1.2), the n-th draw from here (n from 0).
uniform(n) == random.draws[((random.next - 1 + n) % Len(random.draws)) + 1]

\* The generator after n draws.
Drawn(n) ==
    [random EXCEPT !.next = ((random.next - 1 + n) % Len(random.draws)) + 1]

\* The base of process_historical_to_forecast when historical_data is empty.
DefaultBase ==
    << Entry("pm25", Some(1500)), Entry("pm10", Some(4500)),
       Entry("no2", Some(2500)), Entry("o3", Some(6000)) >>

\* `historical_data[-1].get('measurements', {})`, or the default.
BaseMeasurements(historical_data) ==
    IF historical_data # <<>>
    THEN historical_data[Len(historical_data)].measurements
    ELSE DefaultBase

\* The items of the base with `value is not None`.
Present(base) == SelectSeq(base, LAMBDA e : e.concentration # None)

\* forecast_measurements of the k-th pass of the loop (k from 1): every
\* present value times its own draw.  The values of the requests are
\* multiples of 0.05, so the product is exact in hundredths.
ForecastMeasurements(base, k) ==
    LET present == Present(base)
    IN  [j \in 1..Len(present) |->
            Entry(present[j].pollutant,
                  Some((present[j].concentration[1]
                        * uniform((k - 1) * Len(present) + (j - 1))) \div 100))]

\* models/air_quality.py ForecastData.
ForecastData(lat, lon, hours, timestamp, predictions) ==
    [latitude |-> lat, longitude |-> lon, forecast_hours |-> hours,
     timestamp |-> timestamp, predictions |-> predictions]

\* app.py process_historical_to_forecast; the clock is read within one hour.
process_historical_to_forecast(historical_data, lat, lon, hours) ==
    LET offsets == range(0, hours, 6)
        base == BaseMeasurements(historical_data)
    IN  ForecastData(lat, lon, hours, now,
            [k \in 1..Len(offsets) |->
                LET forecast_measurements == ForecastMeasurements(base, k)
                IN  AirQualityData(lat, lon,
                        calculate_overall_aqi(forecast_measurements),
                        now + offsets[k], forecast_measurements,
                        Weather(offsets[k]))])

\* The pollutants create_mock_forecast_data gives the prediction of offset i.
MockForecastPollutants(i) ==
    << Entry("pm25", Some(1550 + i * 50)), Entry("pm10", Some(4500 + i * 100)),
       Entry("no2", Some(2500 + i * 30)), Entry("o3", Some(6000 + i * 80)) >>

create_mock_forecast_data_with_baseline_index(lat, lon, hours) ==
    LET offsets == range(0, hours, 6)
    IN  ForecastData(lat, lon, hours, now,
            [k \in 1..Len(offsets) |->
                AirQualityData(lat, lon,
                    calculate_overall_aqi(MockForecastPollutants(0)),
                    now, MockForecastPollutants(offsets[k]),
                    Weather(offsets[k]))])
\* app.py create_mock_forecast_data.
create_mock_forecast_data(lat, lon, hours) ==
    LET offsets == range(0, hours, 6)
    IN  ForecastData(lat, lon, hours, now,
            [k \in 1..Len(offsets) |->
                AirQualityData(lat, lon,
                    calculate_overall_aqi(MockForecastPollutants(offsets[k])),
                    now, MockForecastPollutants(offsets[k]),
                    Weather(offsets[k]))])

\* A daily aggregate of fetch_historical_data.
Daily(date, measurements) ==
    [date |-> date, measurements |-> measurements, source |-> "OpenAQ Historical"]

\* The historical series of the requests: none, one day with one pollutant,
\* two days with the latest holding two pollutants.
HistoricalSeries ==
    { <<>>,
      << Daily("2025-01-01", <<Entry("pm25", Some(1500))>>) >>,
      << Daily("2025-01-01", <<Entry("pm25", Some(3000))>>),
         Daily("2025-01-02", <<Entry("o3", Some(6000)), Entry("pm25", Some(1000))>>) >> }

\* The coordinate of the forecast requests.
ForecastCoordinates ==
    {c \in Coordinates : InUSBounds(c.latitude, c.longitude)}

\* The inputs <<pollutant, concentration>> calculate_aqi can get from a mapping
\* whose values are multiplied by a factor.
Inputs(pollutants, factors) ==
    {<<pollutants[j].pollutant, (pollutants[j].concentration[1] * f) \div 100>> :
        j \in {i \in 1..Len(pollutants) : pollutants[i].concentration # None},
        f \in factors}

\* process_historical_to_forecast is called with a horizon the route accepts.
InitProcessHistoricalToForecast ==
    \E c \in ForecastCoordinates, h \in 1..MaxHours, hd \in HistoricalSeries :
        /\ request = [op |-> "process_historical_to_forecast",
                      historical_data |-> hd, latitude |-> c.latitude,
                      longitude |-> c.longitude, hours |-> h]
        /\ random \in Generators
        /\ halfway \in HalfwayChoices(Inputs(BaseMeasurements(hd), Factors))

\* create_mock_forecast_data is called with a horizon the route accepts.
InitCreateMockForecastData ==
    \E c \in ForecastCoordinates, h \in 1..MaxHours :
        /\ request = [op |-> "create_mock_forecast_data",
                      latitude |-> c.latitude, longitude |-> c.longitude,
                      hours |-> h]
        /\ random = [draws |-> <<>>, next |-> 1]
        /\ halfway \in HalfwayChoices(
               UNION {Inputs(MockForecastPollutants(range(0, h, 6)[k]), {100}) :
                      k \in 1..Len(range(0, h, 6))})

InitForecast ==
    /\ InitProcessHistoricalToForecast \/ InitCreateMockForecastData
    /\ response = <<>>
    /\ now \in {0, MaxClock}
    /\ FetchIdle

ProcessHistoricalToForecast ==
    /\ request.op = "process_historical_to_forecast"
    /\ response = <<>>
    /\ response' = <<process_historical_to_forecast(request.historical_data,
                         request.latitude, request.longitude, request.hours)>>
    /\ random' = Drawn(Len(range(0, request.hours, 6))
                       * Len(Present(BaseMeasurements(request.historical_data))))
    /\ UNCHANGED <<request, halfway, fetchVars, now>>

CreateMockForecastData ==
    /\ request.op = "create_mock_forecast_data"
    /\ response = <<>>
    /\ response' = <<create_mock_forecast_data(request.latitude,
                         request.longitude, request.hours)>>
    /\ UNCHANGED <<request, halfway, fetchVars, appVars>>

NextForecast == ProcessHistoricalToForecast \/ CreateMockForecastData

SpecForecast == InitForecast /\ [][NextForecast]_vars

\* ------------------------------------- one baseline forecast for two horizons
\* The longest horizon of a pair.
MaxHorizon == 13

\* A builder is to be called for the horizon h1 and then, with the same
\* baseline and coordinate, for a longer horizon h2.
InitHorizons ==
    /\ \E c \in ForecastCoordinates, h1, h2 \in 1..MaxHorizon :
         /\ h1 < h2
         /\ \/ \E hd \in HistoricalSeries :
                 /\ request = [op |-> "horizons",
                               builder |-> "process_historical_to_forecast",
                               historical_data |-> hd, latitude |-> c.latitude,
                               longitude |-> c.longitude, horizons |-> <<h1, h2>>]
                 /\ random \in Generators
                 /\ halfway \in HalfwayChoices(Inputs(BaseMeasurements(hd), Factors))
            \/ /\ request = [op |-> "horizons",
                             builder |-> "create_mock_forecast_data",
                             latitude |-> c.latitude, longitude |-> c.longitude,
                             horizons |-> <<h1, h2>>]
               /\ random = [draws |-> <<>>, next |-> 1]
               /\ halfway \in HalfwayChoices(
                      UNION {Inputs(MockForecastPollutants(range(0, h2, 6)[k]), {100}) :
                             k \in 1..Len(range(0, h2, 6))})
    /\ response = <<>>
    /\ now = 0
    /\ FetchIdle

\* process_historical_to_forecast is called for the next horizon of the pair;
\* the generator goes on from where the call before left it.
ForecastFromHistory ==
    /\ request.op = "horizons"
    /\ request.builder = "process_historical_to_forecast"
    /\ Len(response) < Len(request.horizons)
    /\ LET hours == request.horizons[Len(response) + 1]
       IN  /\ response' = Append(response,
                  process_historical_to_forecast(request.historical_data,
                      request.latitude, request.longitude, hours))
           /\ random' = Drawn(Len(range(0, hours, 6))
                  * Len(Present(BaseMeasurements(request.historical_data))))
    /\ UNCHANGED <<request, halfway, fetchVars, now>>

\* create_mock_forecast_data is called for the next horizon of the pair.
ForecastFromMock ==
    /\ request.op = "horizons"
    /\ request.builder = "create_mock_forecast_data"
    /\ Len(response) < Len(request.horizons)
    /\ response' = Append(response,
           create_mock_forecast_data(request.latitude, request.longitude,
                                     request.horizons[Len(response) + 1]))
    /\ UNCHANGED <<request, halfway, fetchVars, appVars>>

NextHorizons == ForecastFromHistory \/ ForecastFromMock

SpecHorizons == InitHorizons /\ [][NextHorizons]_vars

\* ------------------------------------ data_fetcher.py: the OpenAQ readings
\* The longest list of results in a payload.
MaxResults == 3

\* The 'utc' string of a reading's date: the calendar date, the letter T and
\* the time of day.  date counts the days of January 2025 and time the hours,
\* so the order of the strings is that of the pairs <<date, time>>.
Utc(date, time) == [date |-> date, time |-> time]

\* datetime.utcnow(): the readings are of days 1 and 2, the clock reads day 3.
utcnow == Utc(3, now)

\* `result_timestamp > latest_timestamp` on the strings.
Greater(a, b) == a.date > b.date \/ (a.date = b.date /\ a.time > b.time)

\* `date_str.split('T')[0]`: the calendar date as Daily carries it.
DateOf(utc) ==
    CASE utc.date = 1 -> "2025-01-01"
      [] utc.date = 2 -> "2025-01-02"
      [] OTHER -> "2025-01-03"

\* One element of a payload's results: utc is None when the reading has no
\* date, value is None when it is null.
Reading(utc, parameter, value, unit) ==
    [utc |-> utc, parameter |-> parameter, value |-> value, unit |-> unit]

\* `result.get('parameter', '').lower()`
lower(parameter) ==
    CASE parameter = "PM25" -> "pm25"
      [] parameter = "O3" -> "o3"
      [] OTHER -> parameter

\* The position of the key in a dictionary in insertion order, 0 when absent.
Position(dictionary, field, key) ==
    IF \E k \in 1..Len(dictionary) : dictionary[k][field] = key
    THEN CHOOSE k \in 1..Len(dictionary) : dictionary[k][field] = key
    ELSE 0

\* `dictionary[key] = value`: an existing key keeps its place.
Assign(measurements, key, value) ==
    IF Position(measurements, "pollutant", key) = 0
    THEN Append(measurements, Entry(key, value))
    ELSE [measurements EXCEPT ![Position(measurements, "pollutant", key)] =
              Entry(key, value)]

\* `molecular_weights`, in hundredths.
MolecularWeights == [no2 |-> 4601, o3 |-> 4800, co |-> 2801, so2 |-> 6407]

\* The unit conversion of _process_openaq_data: ppm * molecular_weight * 1000
\* / 24.45 for the four gases, the value as it is otherwise.  The quotient is
\* cut to the hundredth.
Converted(parameter, value, unit) ==
    IF unit = "ppm" /\ parameter \in DOMAIN MolecularWeights
    THEN (value * MolecularWeights[parameter] * 1000) \div 2445
    ELSE value

\* `value is not None and parameter in ['pm25', 'pm10', 'no2', 'o3', 'co', 'so2']`
Accepted(reading) ==
    reading.value # None /\ lower(reading.parameter) \in PollutantKinds

\* `if result_timestamp and (not latest_timestamp or result_timestamp >
\* latest_timestamp)`
Latest(result_timestamp, latest_timestamp) ==
    IF /\ result_timestamp # None
       /\ latest_timestamp = None \/ Greater(result_timestamp[1], latest_timestamp[1])
    THEN result_timestamp
    ELSE latest_timestamp

\* The loop of _process_openaq_data over results[i..]: a later result of a
\* parameter replaces the value an earlier one left.
RECURSIVE OpenAQLoop(_, _, _, _)
OpenAQLoop(results, i, measurements, latest_timestamp) ==
    IF i > Len(results)
    THEN [measurements |-> measurements, latest_timestamp |-> latest_timestamp]
    ELSE IF Accepted(results[i])
         THEN OpenAQLoop(results, i + 1,
                  Assign(measurements, lower(results[i].parameter),
                         Some(Converted(lower(results[i].parameter),
                                        results[i].value[1], results[i].unit))),
                  Latest(results[i].utc, latest_timestamp))
         ELSE OpenAQLoop(results, i + 1, measurements, latest_timestamp)

\* DataFetcher._process_openaq_data.  The readings of the model hold no
\* weather parameter and no station location, so weather is empty.
_process_openaq_data(results, lat, lon) ==
    LET loop == OpenAQLoop(results, 1, <<>>, None)
    IN  Timestamped(Observation(lat, lon, loop.measurements, <<>>, <<"OpenAQ">>),
                    IF loop.latest_timestamp = None THEN utcnow
                    ELSE loop.latest_timestamp[1])

\* ----------------------------------- data_fetcher.py: the historical readings
\* `parameter in ['pm25', 'pm10', 'no2', 'o3']`
HistoricalKinds == {"pm25", "pm10", "no2", "o3"}

\* daily_data with the dictionary of the date opened, if it was not.
Opened(daily_data, date) ==
    IF Position(daily_data, "date", date) = 0
    THEN Append(daily_data, [date |-> date, measurements |-> <<>>])
    ELSE daily_data

\* `daily_data[date][parameter]`, the empty list when the key is absent.
ValuesOf(measurements, parameter) ==
    IF Position(measurements, "pollutant", parameter) = 0 THEN <<>>
    ELSE measurements[Position(measurements, "pollutant", parameter)].concentration

\* The first loop of _process_historical_data over results[i..].
RECURSIVE HistoricalLoop(_, _, _)
HistoricalLoop(results, i, daily_data) ==
    IF i > Len(results) THEN daily_data
    ELSE IF results[i].utc = None
         THEN HistoricalLoop(results, i + 1, daily_data)
         ELSE LET date == DateOf(results[i].utc[1])
                  opened == Opened(daily_data, date)
                  d == Position(opened, "date", date)
                  parameter == lower(results[i].parameter)
              IN  IF results[i].value # None /\ parameter \in HistoricalKinds
                  THEN HistoricalLoop(results, i + 1,
                           [opened EXCEPT ![d].measurements =
                               Assign(@, parameter,
                                      Append(ValuesOf(@, parameter),
                                             results[i].value[1]))])
                  ELSE HistoricalLoop(results, i + 1, opened)

RECURSIVE sum(_)
sum(values) == IF values = <<>> THEN 0 ELSE values[1] + sum(Tail(values))

RECURSIVE GCD(_, _)
GCD(a, b) == IF b = 0 THEN a ELSE GCD(b, a % b)

\* A quotient kept exact, as a fraction in lowest terms.
Quotient(numerator, denominator) ==
    LET g == GCD(Abs(numerator), denominator)
    IN  [numerator |-> numerator \div g, denominator |-> denominator \div g]

FirstValue(values) == Quotient(values[1], 1)
\* `sum(values) / len(values)`
Mean(values) == Quotient(sum(values), Len(values))

\* daily_avg of one date: `if values` holds for every list, none is empty.
DailyAvg(measurements) ==
    LET filled == SelectSeq(measurements, LAMBDA m : m.concentration # <<>>)
    IN  [k \in 1..Len(filled) |->
            Entry(filled[k].pollutant, Mean(filled[k].concentration))]

\* DataFetcher._process_historical_data.
_process_historical_data(results) ==
    LET daily_data == HistoricalLoop(results, 1, <<>>)
        kept == SelectSeq(daily_data, LAMBDA day : DailyAvg(day.measurements) # <<>>)
    IN  [k \in 1..Len(kept) |-> Daily(kept[k].date, DailyAvg(kept[k].measurements))]

\* The readings of the payloads: two of pm25 on the first day, hours apart; an
\* ozone reading in ppm under an upper-case name; a gas the historical
\* aggregates do not track; a null value; a reading without date; a negative
\* value; a parameter that is no pollutant.
Readings ==
    { Reading(Some(Utc(1, 0)), "pm25", Some(1000), "ug/m3"),
      Reading(Some(Utc(1, 23)), "pm25", Some(2550), "ug/m3"),
      Reading(Some(Utc(2, 0)), "O3", Some(5), "ppm"),
      Reading(Some(Utc(2, 0)), "co", Some(30), "ppm"),
      Reading(Some(Utc(1, 0)), "pm10", None, "ug/m3"),
      Reading(None, "pm25", Some(4000), "ug/m3"),
      Reading(Some(Utc(2, 12)), "pm25", Some(-500), "ug/m3"),
      Reading(Some(Utc(2, 0)), "temperature", Some(2200), "c") }

\* The lists of up to n readings, in every order.
RECURSIVE ResultsUpTo(_)
ResultsUpTo(n) ==
    IF n = 0 THEN {<<>>}
    ELSE ResultsUpTo(n - 1) \cup
         {Append(results, reading) :
              results \in {r \in ResultsUpTo(n - 1) : Len(r) = n - 1},
              reading \in Readings}

Results == ResultsUpTo(MaxResults)

\* One of the two processing functions is to be called on a list of results.
InitProcess ==
    /\ \E results \in Results :
         \/ \E c \in ForecastCoordinates :
              request = [op |-> "_process_openaq_data", results |-> results,
                         latitude |-> c.latitude, longitude |-> c.longitude]
         \/ request = [op |-> "_process_historical_data", results |-> results]
    /\ response = <<>>
    /\ halfway = {}
    /\ FetchIdle
    /\ AppIdle

ProcessOpenAQData ==
    /\ request.op = "_process_openaq_data"
    /\ response = <<>>
    /\ response' = <<_process_openaq_data(request.results, request.latitude,
                                          request.longitude)>>
    /\ UNCHANGED <<request, halfway, fetchVars, appVars>>

ProcessHistoricalData ==
    /\ request.op = "_process_historical_data"
    /\ response = <<>>
    /\ response' = <<_process_historical_data(request.results)>>
    /\ UNCHANGED <<request, halfway, fetchVars, appVars>>

NextProcess == ProcessOpenAQData \/ ProcessHistoricalData

SpecProcess == InitProcess /\ [][NextProcess]_vars

\* ------------------------------------- data_fetcher.py: fetch_historical_data
Raised == [status |-> "raised", value |-> None]

\* fetch_historical_data(lat, lon, days=7) is entered.
InitHistorical ==
    /\ EngineIdle
    /\ AppIdle
    /\ pc = "historical_v2"
    /\ coordinate \in Coordinates
    /\ config \in [openweather_api_key : {FALSE}, worldaq_api_key : {FALSE},
                   nasa_authenticated : {FALSE},
                   json_error_is_request_exception : BOOLEAN]
    /\ calls = <<>>
    /\ openaq_data = None
    /\ tempo_data = None
    /\ result = Pending

\* fetch_historical_data returns value.
HistoricalReturns(value) ==
    /\ result' = Return(value)
    /\ pc' = "done"

\* The request to OpenAQ v2 /measurements and what follows it in the try
\* block; `except Exception` returns the empty list.
QueryHistoricalV2 ==
    /\ pc = "historical_v2"
    /\ \E outcome \in Outcomes :
        /\ calls' = Append(calls, Called("openaq_v2", outcome))
        /\ \/ /\ Raises(outcome) = "RequestException"
              /\ pc' = "historical_v3"
              /\ UNCHANGED result
           \/ /\ Raises(outcome) = "Exception"
              /\ HistoricalReturns(Some(<<>>))
           \/ /\ outcome = "empty"
              /\ HistoricalReturns(None)
           \/ /\ outcome = "data"
              /\ \E results \in Results \ {<<>>} :
                     HistoricalReturns(Some(_process_historical_data(results)))
    /\ UNCHANGED <<engineVars, appVars, coordinate, config, openaq_data, tempo_data>>

\* The request to OpenAQ v3 /measurements, made in the handler of v2's
\* RequestException: an exception of another class raised here leaves
\* fetch_historical_data.
QueryHistoricalV3 ==
    /\ pc = "historical_v3"
    /\ \E outcome \in Outcomes :
        /\ calls' = Append(calls, Called("openaq_v3", outcome))
        /\ \/ /\ Raises(outcome) = "RequestException"
              /\ HistoricalReturns(Some(<<>>))
           \/ /\ Raises(outcome) = "Exception"
              /\ result' = Raised
              /\ pc' = "done"
           \/ /\ outcome = "empty"
              /\ HistoricalReturns(Some(<<>>))
           \/ /\ outcome = "data"
              /\ \E results \in Results \ {<<>>} :
                     HistoricalReturns(Some(_process_historical_data(results)))
    /\ UNCHANGED <<engineVars, appVars, coordinate, config, openaq_data, tempo_data>>

NextHistorical == QueryHistoricalV2 \/ QueryHistoricalV3

SpecHistorical == InitHistorical /\ [][NextHistorical]_vars

\* ---------------------------------------------- app.py: the ingress of a request
\* A location text is the sequence of its parts between commas; float is what
\* float(part.strip()) gives, None when it raises ValueError.
Part(text, float) == [text |-> text, float |-> float]

\* validators.py validate_coordinates.
validate_coordinates(latitude, longitude) ==
    -90 <= latitude /\ latitude <= 90 /\ -180 <= longitude /\ longitude <= 180

\* The tuple validate_location_input returns.
Validation(is_valid, error_message, latitude, longitude) ==
    [is_valid |-> is_valid, error_message |-> error_message,
     latitude |-> latitude, longitude |-> longitude]

\* validators.py validate_location_input, for a text that is not empty.
validate_location_input(location_input) ==
    IF Len(location_input) > 1 /\ Len(location_input) = 2
    THEN IF location_input[1].float = None \/ location_input[2].float = None
         THEN Validation(FALSE, Some("Invalid coordinate format"), None, None)
         ELSE IF validate_coordinates(location_input[1].float[1],
                                      location_input[2].float[1])
              THEN Validation(TRUE, None, location_input[1].float,
                              location_input[2].float)
              ELSE Validation(FALSE, Some("Invalid coordinate values"), None, None)
    ELSE Validation(TRUE, None, None, None)

\* geocoding.py get_location_info: the coordinates of a text that holds a
\* valid pair (reverse_geocode changes the names only), what geocode_address
\* finds otherwise.  geocoded is Nominatim's answer: a place, or None when it
\* finds nothing or cannot be reached.
get_location_info(location_input, geocoded) ==
    IF /\ Len(location_input) = 2
       /\ location_input[1].float # None
       /\ location_input[2].float # None
       /\ validate_coordinates(location_input[1].float[1], location_input[2].float[1])
    THEN Some([latitude |-> location_input[1].float[1],
               longitude |-> location_input[2].float[1]])
    ELSE geocoded

BadRequest(error) == [status |-> 400, error |-> error]

\* What the validation of a route leaves in lat and lon, or the response it
\* returns.
Resolved(latitude, longitude) ==
    [error |-> None, latitude |-> latitude, longitude |-> longitude]
Rejected(error) == [error |-> Some(error), latitude |-> None, longitude |-> None]

\* `# Validate location input` of get_current_conditions and get_forecast.
ValidateLocation(args, geocoded) ==
    IF args.lat # None /\ args.lon # None
    THEN IF validate_coordinates(args.lat[1], args.lon[1])
         THEN Resolved(args.lat, args.lon)
         ELSE Rejected("Invalid coordinates")
    ELSE IF args.location # None
         THEN LET location_info == get_location_info(args.location[1], geocoded)
                  validation == validate_location_input(args.location[1])
              IN  IF location_info # None
                  THEN Resolved(Some(location_info[1].latitude),
                                Some(location_info[1].longitude))
                  ELSE IF ~validation.is_valid
                       THEN Rejected(validation.error_message[1])
                       ELSE Resolved(validation.latitude, validation.longitude)
         ELSE Rejected("Location or coordinates required")

\* The texts of the location argument: two pairs of numbers, in and out of
\* range; a name; a name in two and in three parts; a number and a word.
Locations ==
    { << Part("40", Some(40)), Part("-100", Some(-100)) >>,
      << Part("95", Some(95)), Part("200", Some(200)) >>,
      << Part("Atlantis", None) >>,
      << Part("Paris", None), Part("France", None) >>,
      << Part("Paris", None), Part("Ile-de-France", None), Part("France", None) >>,
      << Part("40", Some(40)), Part("west", None) >> }

\* What Nominatim can answer.
Geocoded == {None, Some([latitude |-> 48, longitude |-> 2])}

\* The query arguments of a request: lat, lon and location are None when
\* absent, empty or, for the numbers, not parsable.
Arguments ==
    [lat : {None, Some(40), Some(91), Some(-91)},
     lon : {None, Some(-100), Some(181)},
     location : {None} \cup {Some(l) : l \in Locations},
     hours : {0, 24, 169}]

\* A request for /api/current-conditions or /api/forecast arrives.
InitIngress ==
    /\ \E route \in {"get_current_conditions", "get_forecast"}, args \in Arguments :
           request = [op |-> route, args |-> args]
    /\ response = <<>>
    /\ halfway = {}
    /\ AppIdle
    /\ pc = "ingress"
    /\ coordinate = [latitude |-> None, longitude |-> None]
    /\ config = [openweather_api_key |-> FALSE, worldaq_api_key |-> FALSE,
                 nasa_authenticated |-> FALSE,
                 json_error_is_request_exception |-> FALSE]
    /\ calls = <<>>
    /\ openaq_data = None
    /\ tempo_data = None
    /\ result = Pending

\* The route answers 400.
Answer(error) ==
    /\ result' = BadRequest(error)
    /\ pc' = "done"
    /\ UNCHANGED coordinate

\* The route calls the pipeline with lat and lon: entry is where the called
\* function starts.
Enter(entry, validated) ==
    /\ coordinate' = [latitude |-> validated.latitude,
                      longitude |-> validated.longitude]
    /\ pc' = entry
    /\ UNCHANGED result

\* get_current_conditions up to data_fetcher.get_combined_data(lat, lon).
GetCurrentConditions ==
    /\ pc = "ingress"
    /\ request.op = "get_current_conditions"
    /\ \E geocoded \in Geocoded :
         LET validated == ValidateLocation(request.args, geocoded)
         IN  IF validated.error # None
             THEN Answer(validated.error[1])
             ELSE Enter("openaq_v2", validated)
    /\ UNCHANGED <<engineVars, appVars, config, calls, openaq_data, tempo_data>>

\* get_forecast up to data_fetcher.fetch_historical_data(lat, lon, days=7).
GetForecast ==
    /\ pc = "ingress"
    /\ request.op = "get_forecast"
    /\ \E geocoded \in Geocoded :
         LET validated == ValidateLocation(request.args, geocoded)
         IN  IF validated.error # None
             THEN Answer(validated.error[1])
             ELSE IF request.args.hours < 1 \/ request.args.hours > MaxHours
                  THEN Answer("Invalid hours parameter (1-168)")
                  ELSE Enter("historical_v2", validated)
    /\ UNCHANGED <<engineVars, appVars, config, calls, openaq_data, tempo_data>>

NextIngress == GetCurrentConditions \/ GetForecast

SpecIngress == InitIngress /\ [][NextIngress]_vars


\* ===================================================================== claims
Top(pollutant) == BREAKPOINTS[pollutant][Len(BREAKPOINTS[pollutant])][2]

AqiCalls == IF request.op = "calculate_aqi" THEN 1..Len(response) ELSE {}
OverallDone == request.op = "calculate_overall_aqi" /\ response # <<>>

\* The entries of a mapping that count for the overall index: concentration
\* present, non-null and strictly positive, pollutant with a table.
Qualifying(m) ==
    {i \in 1..Len(m) : /\ m[i].concentration # None
                       /\ m[i].concentration[1] > 0
                       /\ HasTable(m[i].pollutant)}

IndexOf(m, i) == calculate_aqi(m[i].pollutant, m[i].concentration[1]).aqi

Maximum(S) == CHOOSE x \in S : \A y \in S : y <= x

\* C1: for a pollutant with a table and concentrations c1 <= c2 of the interval
\* [0, highest concentration_high], calculate_aqi(p, c1) <= calculate_aqi(p, c2).
C1_Monotone ==
    ( /\ request.op = "calculate_aqi"
      /\ HasTable(request.pollutant)
      /\ Len(response) = 2
      /\ 0 <= request.concentrations[1]
      /\ request.concentrations[1] <= request.concentrations[2]
      /\ request.concentrations[2] <= Top(request.pollutant) )
    => response[1].aqi <= response[2].aqi

\* C2: calculate_overall_aqi returns as index the maximum of calculate_aqi over
\* the entries that count, and (0, "unknown") when the mapping is empty or no
\* entry counts; it does not raise.
C2_OverallIsMaximum ==
    OverallDone =>
        LET m == request.pollutants
            r == response[1]
        IN  /\ ~r.raised
            /\ Qualifying(m) # {} =>
                   r.aqi = Maximum({IndexOf(m, i) : i \in Qualifying(m)})
            /\ Qualifying(m) = {} => r.aqi = 0 /\ r.primary_pollutant = "unknown"

\* C2 witness: an overall index that a later entry of the mapping sets.
C2_Witness ==
    /\ OverallDone
    /\ Cardinality(Qualifying(request.pollutants)) >= 2
    /\ response[1].aqi > 0
    /\ response[1].primary_pollutant # request.pollutants[1].pollutant
    /\ 1 \in Qualifying(request.pollutants)
    /\ IndexOf(request.pollutants, 1) > 0

\* C3: when an entry counts, the primary pollutant is a pollutant of the input
\* whose index equals the overall index, the first such in the mapping's order.
C3_PrimaryIsFirstArgmax ==
    (OverallDone /\ Qualifying(request.pollutants) # {}) =>
        LET m == request.pollutants
            r == response[1]
            best == {i \in Qualifying(m) : IndexOf(m, i) = r.aqi}
        IN  /\ best # {}
            /\ r.primary_pollutant =
                   m[CHOOSE i \in best : \A j \in best : i <= j].pollutant

\* C4: above the table's highest concentration_high calculate_aqi returns
\* exactly 500 without raising; for a non-negative concentration its index, and
\* the index of calculate_overall_aqi, lies in 0..500.
C4_ClampedToCeiling ==
    /\ \A k \in AqiCalls :
           HasTable(request.pollutant) =>
               /\ ~response[k].raised
               /\ request.concentrations[k] > Top(request.pollutant)
                      => response[k].aqi = 500
               /\ request.concentrations[k] >= 0
                      => response[k].aqi \in 0..500
    /\ OverallDone => response[1].aqi \in 0..500

\* C4 witness: a call above the ceiling of the table has returned.
C4_Witness ==
    /\ request.op = "calculate_aqi"
    /\ request.pollutant = "o3"
    /\ Len(response) = 2
    /\ request.concentrations[2] > Top("o3")
    /\ response[2].aqi = 500

\* C5: at the c_low of a range calculate_aqi returns its aqi_low and at the
\* c_high its aqi_high, so from the top of a range to the bottom of the next
\* the index rises by exactly one.
C5_ExactAtBreakpoints ==
    (request.op = "calculate_aqi" /\ HasTable(request.pollutant)) =>
        LET rows == BREAKPOINTS[request.pollutant]
            c == request.concentrations
        IN  /\ \A k \in AqiCalls : \A i \in 1..Len(rows) :
                   /\ c[k] = rows[i][1] => response[k].aqi = rows[i][3]
                   /\ c[k] = rows[i][2] => response[k].aqi = rows[i][4]
            /\ Len(response) = 2 =>
                   \A i \in 1..(Len(rows) - 1) :
                       (c[1] = rows[i][2] /\ c[2] = rows[i + 1][1])
                           => response[2].aqi = response[1].aqi + 1

\* C5 witness: pm25 at 12.0 gave 50 and at 12.1 gave 51.
C5_Witness ==
    /\ request.op = "calculate_aqi"
    /\ request.pollutant = "pm25"
    /\ request.concentrations = <<1200, 1210>>
    /\ Len(response) = 2
    /\ response[1].aqi = 50
    /\ response[2].aqi = 51

\* The bands of the index scale and their categories.
Bands ==
    << <<0, 50, "Good">>, <<51, 100, "Moderate">>,
       <<101, 150, "Unhealthy for Sensitive Groups">>, <<151, 200, "Unhealthy">>,
       <<201, 300, "Very Unhealthy">>, <<301, 500, "Hazardous">> >>

BandOf(aqi) == CHOOSE i \in 1..Len(Bands) : Bands[i][1] <= aqi /\ aqi <= Bands[i][2]

\* C6: for an index in 0..500 get_aqi_category returns the category of the band
\* that contains it, and get_aqi_color takes one colour per band: two indices
\* have the same colour exactly when they lie in the same band.
C6_BandsAndColours ==
    request.op = "classify" =>
        /\ Len(response) >= 1 => response[1] = Bands[BandOf(request.aqi)][3]
        /\ Len(response) = 2 =>
               \A b \in 0..AqiCeiling :
                   (get_aqi_color(b) = response[2]) <=> (BandOf(b) = BandOf(request.aqi))

\* C6 witness: 51, the first index of the second band, classified.
C6_Witness ==
    /\ request.op = "classify"
    /\ request.aqi = 51
    /\ response = <<"Moderate", "#ffff00">>

\* The mapping without the pollutants that have no table.
RECURSIVE WithoutTableless(_)
WithoutTableless(m) ==
    IF m = <<>> THEN <<>>
    ELSE IF HasTable(Head(m).pollutant)
    THEN <<Head(m)>> \o WithoutTableless(Tail(m))
    ELSE WithoutTableless(Tail(m))

\* C7: calculate_aqi raises for a pollutant without a table whatever the
\* concentration; calculate_overall_aqi does not, and returns what it returns
\* for the mapping without such pollutants.
C7_UnknownPollutant ==
    /\ \A k \in AqiCalls : ~HasTable(request.pollutant) => response[k].raised
    /\ OverallDone =>
           LET r == response[1]
               w == calculate_overall_aqi(WithoutTableless(request.pollutants))
           IN  /\ ~r.raised
               /\ r.aqi = w.aqi
               /\ r.primary_pollutant = w.primary_pollutant

\* C7 witness: a mapping with a positive co reading before a counted entry.
C7_Witness ==
    /\ OverallDone
    /\ Len(request.pollutants) >= 2
    /\ request.pollutants[1] = [pollutant |-> "co", concentration |-> Some(1000)]
    /\ response[1].aqi > 0
    /\ response[1].primary_pollutant = request.pollutants[2].pollutant

Done == pc = "done"

\* No call of the request has yielded data.
NoProviderData == \A i \in 1..Len(calls) : calls[i].outcome # "data"

\* Neither OpenAQ variant has yielded data.
NoOpenAQData ==
    \A i \in 1..Len(calls) :
        calls[i].provider \in {"openaq_v2", "openaq_v3"} => calls[i].outcome # "data"

Providers == {calls[i].provider : i \in 1..Len(calls)}

\* C8: for every valid coordinate and every combination of outcomes of the
\* provider calls, get_combined_data returns an observation and propagates no
\* error: it never stands raised, never stops short of returning, and what it
\* returns is a dictionary with a label.
C8_AlwaysReturns ==
    /\ result.status # "raised"
    /\ ~Done => ENABLED NextFetch
    /\ Done => /\ result.status = "returned"
               /\ result.value # None
               /\ result.value[1].source # <<>>

\* C8 witness: OpenAQ v2 failed on the network and v3 answered with a payload
\* that cannot be processed; the request has returned.
C8_Witness ==
    /\ Done
    /\ calls = <<Called("openaq_v2", "network_failure"),
                 Called("openaq_v3", "unprocessable")>>
    /\ result.status = "returned"

\* C9: if no provider yields data in a request and the satellite provider is
\* unauthenticated, get_combined_data returns the synthetic observation of the
\* coordinate: pollutant values, the requested latitude and longitude, a label
\* that says synthetic.
C9_SyntheticWhenNoData ==
    (Done /\ NoProviderData /\ ~config.nasa_authenticated) =>
        /\ result.status = "returned"
        /\ result.value[1].measurements # <<>>
        /\ result.value[1].latitude = coordinate.latitude
        /\ result.value[1].longitude = coordinate.longitude
        /\ result.value[1].source = <<MockLabel>>

\* C10: whenever neither OpenAQ variant yields usable data, WAQI is queried
\* before fetch_current_conditions_openaq resorts to synthetic data or returns.
C10_RealtimeBeforeSynthetic ==
    (pc \in {"tempo", "combine", "done"} /\ NoOpenAQData) => "waqi" \in Providers

\* ------------------------------------------- the order of the provider calls
GroundProviders == {"openaq_v2", "openaq_v3", "waqi", "openweather", "airnow"}

\* The place of a ground provider in the fallback order.
Rank(provider) ==
    CASE provider = "openaq_v2" -> 1
      [] provider = "openaq_v3" -> 2
      [] provider = "waqi" -> 3
      [] provider = "openweather" -> 4
      [] provider = "airnow" -> 5

\* The positions in calls of the calls to ground providers.
GroundCalls == {i \in 1..Len(calls) : calls[i].provider \in GroundProviders}

\* C11: within one get_combined_data request the ground providers are called
\* strictly in the order OpenAQ v2, OpenAQ v3, WAQI, OpenWeatherMap, AirNow (a
\* later call is to a provider later in this order), and once one of them has
\* returned data no provider after it is called.
C11_SequentialShortCircuit ==
    \A i, j \in GroundCalls :
        i < j => /\ Rank(calls[i].provider) < Rank(calls[j].provider)
                 /\ calls[i].outcome # "data"

\* C11 witness: all five ground providers were called, in the order, the first
\* four failing in different ways and AirNow returning data, which ended the
\* chain.
C11_Witness ==
    /\ Done
    /\ Len(calls) = 5
    /\ <<calls[1].provider, calls[2].provider, calls[3].provider,
         calls[4].provider, calls[5].provider>>
           = <<"openaq_v2", "openaq_v3", "waqi", "openweather", "airnow">>
    /\ calls[3].outcome = "empty"
    /\ calls[5].outcome = "data"
    /\ result.value[1].source = <<"AirNow (Real-time)">>

\* The call to OpenAQ v2 ended in a network failure (connection, HTTP status),
\* or its response could not be parsed (no JSON) or processed.
V2Failed ==
    /\ calls # <<>>
    /\ calls[1].provider = "openaq_v2"
    /\ calls[1].outcome \in {"network_failure", "http_error", "undecodable",
                             "unprocessable"}

\* C12: if the OpenAQ v2 call ends in a network failure or its response
\* cannot be parsed or processed, OpenAQ v3 is queried in the same request
\* before any real-time provider is queried and before synthetic data is
\* returned (before fetch_current_conditions_openaq returns at all).
C12_V3AfterV2Failure ==
    (V2Failed /\ pc # "openaq_v3") =>
        (Len(calls) >= 2 /\ calls[2].provider = "openaq_v3")

\* ------------------------------------------------- the merge of TEMPO readings
\* get_combined_data has returned what _combine_data_sources made of a base
\* observation and the TEMPO observation.
Merged == Done /\ openaq_data # None /\ tempo_data # None

\* C13: each pollutant that has a non-null value in the base observation has
\* exactly that value in the result of _combine_data_sources, whatever the
\* supplementary (TEMPO) observation holds.
C13_NoOverwrite ==
    (Done /\ openaq_data # None) =>
        \A k \in KeysOf(openaq_data[1].measurements) :
            ValueOf(openaq_data[1].measurements, k) # None =>
                ValueOf(result.value[1].measurements, k)
                    = ValueOf(openaq_data[1].measurements, k)

\* C13 witness: OpenAQ reported pm25 12.0 and TEMPO, merged into it, 15.0; the
\* result holds 12.0 for pm25 and TEMPO's no2.
C13_Witness ==
    /\ Merged
    /\ ValueOf(openaq_data[1].measurements, "pm25") = Some(1200)
    /\ ValueOf(tempo_data[1].measurements, "pm25") = Some(1500)
    /\ ValueOf(result.value[1].measurements, "pm25") = Some(1200)
    /\ ValueOf(result.value[1].measurements, "no2") = Some(2500)

\* C14: each pollutant slot that is absent in the base observation (its key
\* missing or its value null) and for which TEMPO reports a value holds
\* TEMPO's value in the result of _combine_data_sources.
C14_GapsFilled ==
    Merged =>
        \A k \in KeysOf(tempo_data[1].measurements) :
            (/\ ValueOf(tempo_data[1].measurements, k) # None
             /\ ValueOf(openaq_data[1].measurements, k) = None) =>
                ValueOf(result.value[1].measurements, k)
                    = ValueOf(tempo_data[1].measurements, k)

\* TEMPO readings were merged into an observation of another provider: some
\* value of the result is TEMPO's and not the base observation's.
TempoContributed ==
    /\ Merged
    /\ \E k \in KeysOf(tempo_data[1].measurements) :
           /\ ValueOf(tempo_data[1].measurements, k) # None
           /\ ValueOf(openaq_data[1].measurements, k) = None
           /\ ValueOf(result.value[1].measurements, k)
                  = ValueOf(tempo_data[1].measurements, k)

\* C15: the label of the observation get_combined_data returns is
\* "<primary> + <supplementary>" when TEMPO readings were merged into an
\* observation of another provider, and the single provider's own label
\* otherwise: TEMPO is never named twice and never named when it contributed
\* no value.
C15_LabelNamesContributors ==
    (Done /\ (openaq_data # None \/ tempo_data # None)) =>
        result.value[1].source =
            IF TempoContributed THEN Append(openaq_data[1].source, "TEMPO")
            ELSE IF openaq_data # None THEN openaq_data[1].source
            ELSE tempo_data[1].source

\* C16: an adapter whose credential is not configured issues no call:
\* OpenWeatherMap is not queried without OPENWEATHER_API_KEY, WAQI not without
\* WORLDAQ_API_KEY, TEMPO is not queried and contributes nothing unless the
\* Earthdata login succeeded; and no error comes of an absent credential.
C16_NoCallWithoutCredential ==
    /\ \A i \in 1..Len(calls) :
           /\ calls[i].provider = "openweather" => config.openweather_api_key
           /\ calls[i].provider = "waqi" => config.worldaq_api_key
           /\ calls[i].provider = "tempo" => config.nasa_authenticated
    /\ ~config.nasa_authenticated => tempo_data = None
    /\ result.status # "raised"

\* ------------------------------------------------- the synthetic generators
\* The positions in the log of the calls of a generator.
MockCalls(generator) ==
    IF request.op = "mock"
    THEN {i \in 1..Len(response) : response[i].generator = generator}
    ELSE {}

SameValues(a, b) ==
    /\ a.data.measurements = b.data.measurements
    /\ a.data.weather = b.data.weather

\* C17: two calls of _get_mock_air_quality_data with the same coordinate
\* return identical pollutant values and identical weather values, whatever
\* happened between them (hours passed, other calls were made).
C17_MockDeterministic ==
    \A i, j \in MockCalls("_get_mock_air_quality_data") :
        (/\ response[i].latitude = response[j].latitude
         /\ response[i].longitude = response[j].longitude) =>
            SameValues(response[i], response[j])

\* C17 witness: the generator was called for (10, 20), then, an hour or more
\* later, for another coordinate, then for (10, 20) again; the first and the
\* last dictionary carry different timestamps and the same values.
C17_Witness ==
    /\ MockCalls("_get_mock_air_quality_data") = {1, 2, 3}
    /\ response[1].latitude = 10 /\ response[1].longitude = 20
    /\ response[2].latitude = 40
    /\ response[3].latitude = 10 /\ response[3].longitude = 20
    /\ response[1].data.timestamp < response[2].data.timestamp
    /\ response[2].data.timestamp < response[3].data.timestamp
    /\ ValueOf(response[1].data.measurements, "pm25") = Some(1000)
    /\ SameValues(response[1], response[3])

\* C18: for two distinct coordinates the synthetic observations of a
\* generator differ in at least one pollutant value or weather value, for
\* _get_mock_air_quality_data and for create_mock_air_quality_data.
C18_MockLocationSensitive ==
    \A g \in {"_get_mock_air_quality_data", "create_mock_air_quality_data"} :
        \A i, j \in MockCalls(g) :
            (\/ response[i].latitude # response[j].latitude
             \/ response[i].longitude # response[j].longitude) =>
                ~SameValues(response[i], response[j])

\* ------------------------------------------------------ the forecast series
Builders == {"process_historical_to_forecast", "create_mock_forecast_data"}

\* A forecast builder has returned its series.
ForecastDone == request.op \in Builders /\ response # <<>>

\* C19: for every horizon hours in 1..168 both forecast builders produce
\* exactly ceil(hours / 6) predictions, the k-th (from 0) built for hour
\* offset 6 * k (its weather is that of the offset), every offset strictly
\* less than hours.
C19_OnePredictionPerSixHours ==
    ForecastDone =>
        LET predictions == response[1].predictions
        IN  /\ Len(predictions) = (request.hours + 5) \div 6
            /\ \A k \in 1..Len(predictions) :
                   /\ predictions[k].weather = Weather(6 * (k - 1))
                   /\ 6 * (k - 1) < request.hours

\* C19 witness: process_historical_to_forecast called with hours = 24 returned
\* four predictions, the last for offset 18.
C19_Witness ==
    /\ ForecastDone
    /\ request.op = "process_historical_to_forecast"
    /\ request.hours = 24
    /\ Len(response[1].predictions) = 4
    /\ response[1].predictions[4].weather = Weather(18)

\* C20: in every forecast series, of either builder, the k-th prediction
\* (from 0) carries the timestamp request time + 6 * k hours, so consecutive
\* timestamps are strictly increasing and six hours apart.
C20_TimestampsSixHoursApart ==
    ForecastDone =>
        LET predictions == response[1].predictions
        IN  \A k \in 1..Len(predictions) :
                predictions[k].timestamp = now + 6 * (k - 1)

\* The baseline of the series: the latest measurements of the historical
\* series (or the builder's default), or the pollutants create_mock_forecast_data
\* starts from.
Baseline ==
    IF request.op = "process_historical_to_forecast"
    THEN BaseMeasurements(request.historical_data)
    ELSE MockForecastPollutants(0)

\* C21: in every forecast series, for every prediction and every pollutant of
\* the baseline, the predicted concentration lies between 0.8 and 1.2 times
\* the baseline's value of that pollutant, for a historical baseline and for
\* the synthetic one, at every hour offset up to the horizon.
C21_WithinFifthOfBaseline ==
    ForecastDone =>
        \A k \in 1..Len(response[1].predictions) :
            \A j \in 1..Len(Baseline) :
                Baseline[j].concentration # None =>
                    LET b == Baseline[j].concentration[1]
                        p == ValueOf(response[1].predictions[k].measurements,
                                     Baseline[j].pollutant)
                    IN  /\ p # None
                        /\ 80 * b <= 100 * p[1]
                        /\ 100 * p[1] <= 120 * b

\* The prediction's own concentrations, as the mapping the builder made of
\* them: in the key order of the baseline, without the absent ones.
OwnConcentrations(prediction) ==
    SelectSeq([j \in 1..Len(Baseline) |->
                  Entry(Baseline[j].pollutant,
                        ValueOf(prediction.measurements, Baseline[j].pollutant))],
              LAMBDA e : e.concentration # None)

\* C22: in every forecast series of either builder each prediction's aqi and
\* primary_pollutant are calculate_overall_aqi of that prediction's own
\* concentrations, not an index of the baseline or of another prediction.
C22_IndexOfOwnConcentrations ==
    ForecastDone =>
        \A k \in 1..Len(response[1].predictions) :
            LET prediction == response[1].predictions[k]
                own == calculate_overall_aqi(OwnConcentrations(prediction))
            IN  /\ prediction.aqi = own.aqi
                /\ prediction.primary_pollutant = own.primary_pollutant

\* C22 witness: a 24-hour series of create_mock_forecast_data whose indices
\* rise with the concentrations: 67 for the first prediction (the baseline's)
\* and more than 100 for the last.
C22_Witness ==
    /\ ForecastDone
    /\ request.op = "create_mock_forecast_data"
    /\ request.hours = 24
    /\ response[1].predictions[1].aqi = 67
    /\ response[1].predictions[4].aqi > 100
    /\ response[1].predictions[4].primary_pollutant = "o3"

\* Both forecasts of a pair of horizons have been built.
HorizonsDone == request.op = "horizons" /\ Len(response) = 2

\* C23: for the same baseline and coordinate and two horizons h1 < h2, the
\* first ceil(h1 / 6) predictions of the forecast for h2 have the pollutant
\* concentrations, weather values and AQI of the predictions of the forecast
\* for h1.
C23_HorizonIndependent ==
    HorizonsDone =>
        \A k \in 1..Len(response[1].predictions) :
            /\ k <= Len(response[2].predictions)
            /\ response[2].predictions[k].measurements
                   = response[1].predictions[k].measurements
            /\ response[2].predictions[k].weather
                   = response[1].predictions[k].weather
            /\ response[2].predictions[k].aqi = response[1].predictions[k].aqi

\* The readings of the results that count for the pollutant on the date: they
\* carry a date, a value and, in any case of letters, the pollutant's name.
ReadingsOn(results, date, pollutant) ==
    {i \in 1..Len(results) :
        /\ results[i].utc # None
        /\ DateOf(results[i].utc[1]) = date
        /\ results[i].value # None
        /\ lower(results[i].parameter) = pollutant}

RECURSIVE Total(_, _)
Total(results, S) ==
    IF S = {} THEN 0
    ELSE LET i == CHOOSE i \in S : TRUE
         IN  results[i].value[1] + Total(results, S \ {i})

Dates == {"2025-01-01", "2025-01-02", "2025-01-03"}

HistoricalProcessed ==
    request.op = "_process_historical_data" /\ response # <<>>

\* C24: for every list of raw readings, _process_historical_data returns at
\* most one aggregate per calendar date; the aggregate of a date holds exactly
\* the tracked pollutants read on that date, each once, with the arithmetic
\* mean of exactly its readings of that date; a date without a reading of a
\* tracked pollutant has no aggregate.
C24_DailyMeans ==
    HistoricalProcessed =>
        LET results == request.results
            aggregates == response[1]
        IN  /\ \A j, k \in 1..Len(aggregates) :
                   aggregates[j].date = aggregates[k].date => j = k
            /\ \A date \in Dates :
                   (\E k \in 1..Len(aggregates) : aggregates[k].date = date)
                   <=> (\E p \in HistoricalKinds : ReadingsOn(results, date, p) # {})
            /\ \A k \in 1..Len(aggregates) :
                 LET m == aggregates[k].measurements
                 IN  /\ aggregates[k].date \in Dates
                     /\ \A i, j \in 1..Len(m) : m[i].pollutant = m[j].pollutant => i = j
                     /\ \A p \in HistoricalKinds :
                            HasKey(m, p) <=> ReadingsOn(results, aggregates[k].date, p) # {}
                     /\ \A i \in 1..Len(m) :
                          LET S == ReadingsOn(results, aggregates[k].date, m[i].pollutant)
                          IN  /\ m[i].pollutant \in HistoricalKinds
                              /\ S # {}
                              /\ m[i].concentration.denominator > 0
                              /\ m[i].concentration.numerator * Cardinality(S)
                                     = Total(results, S) * m[i].concentration.denominator

\* Two pm25 readings of the first day, 10.00 and 25.50, and a co reading of the
\* second: one aggregate, of the first day, with the mean 17.75.
C24_Witness ==
    /\ HistoricalProcessed
    /\ \E i \in 1..Len(request.results) : request.results[i].parameter = "co"
    /\ response[1] = << Daily("2025-01-01", <<Entry("pm25", Quotient(1775, 1))>>) >>

HistoricalDone == pc = "done" /\ calls # <<>> /\ calls[1].provider = "openaq_v2"

\* The last historical call failed (connection, status, undecodable body) or
\* answered with a valid payload without results.
NoHistoricalData ==
    calls[Len(calls)].outcome \in {"network_failure", "http_error", "undecodable", "empty"}

\* C25: when the provider has no historical data for the coordinate or the
\* historical calls fail, fetch_historical_data returns the empty sequence; it
\* neither raises nor returns None.
C25_EmptyWhenNoData ==
    (HistoricalDone /\ NoHistoricalData) => result = Return(Some(<<>>))

Entered == pc \in {"openaq_v2", "historical_v2"}

\* C26: get_combined_data and fetch_historical_data are entered only with a
\* latitude in [-90, 90] and a longitude in [-180, 180], both present; a
\* request that does not resolve to such a coordinate is answered 400 instead.
C26_ValidatedAtIngress ==
    (request.op \in {"get_current_conditions", "get_forecast"} /\ Entered) =>
        /\ coordinate.latitude # None
        /\ coordinate.longitude # None
        /\ validate_coordinates(coordinate.latitude[1], coordinate.longitude[1])

\* C27: whichever adapter produced it, the observation get_combined_data
\* returns keys its measurements by kinds of the fixed set {pm25, pm10, no2,
\* o3, co, so2} only.
C27_KeyedByKinds ==
    (Done /\ result.status = "returned") =>
        KeysOf(result.value[1].measurements) \subseteq PollutantKinds

\* C28: whatever the provider reports, no daily aggregate fetch_historical_data
\* returns holds a negative concentration.
C28_NoNegativeConcentration ==
    (HistoricalDone /\ result.status = "returned" /\ result.value[1] # None) =>
        \A k \in 1..Len(result.value[1][1]) :
            \A i \in 1..Len(result.value[1][1][k].measurements) :
                result.value[1][1][k].measurements[i].concentration.numerator >= 0

OpenAQProcessed == request.op = "_process_openaq_data" /\ response # <<>>

\* The accepted readings of the pollutant among the results.
AcceptedOf(results, pollutant) ==
    {i \in 1..Len(results) :
        Accepted(results[i]) /\ lower(results[i].parameter) = pollutant}

\* C29: for every list of results whose accepted readings carry a date, in
\* any order, the concentration kept for a pollutant is the value of one of its
\* readings with the latest timestamp, and the observation's timestamp is the
\* latest timestamp among the accepted readings.
C29_LatestReadingKept ==
    LET results == request.results
        accepted == UNION {AcceptedOf(results, p) : p \in PollutantKinds}
        kept == response[1].measurements
    IN  (OpenAQProcessed /\ \A i \in accepted : results[i].utc # None) =>
            /\ \A k \in 1..Len(kept) :
                 \E i \in AcceptedOf(results, kept[k].pollutant) :
                    /\ \A j \in AcceptedOf(results, kept[k].pollutant) :
                           ~Greater(results[j].utc[1], results[i].utc[1])
                    /\ kept[k].concentration
                           = Some(Converted(kept[k].pollutant, results[i].value[1],
                                            results[i].unit))
            /\ accepted # {} =>
                 /\ \E i \in accepted : response[1].timestamp = results[i].utc[1]
                 /\ \A i \in accepted :
                        ~Greater(results[i].utc[1], response[1].timestamp)

Endpoints == {"openaq_v2", "openaq_v3", "waqi", "openweather", "airnow", "tempo"}

\* No endpoint has been queried twice in the request.
AtMostOnce ==
    /\ \A i, j \in 1..Len(calls) : calls[i].provider = calls[j].provider => i = j
    /\ Providers \subseteq Endpoints

\* C30: within one get_combined_data request every provider endpoint is
\* queried at most once, whatever the outcomes, so there are at most six
\* provider calls, and the request finishes with a result.
C30_BoundedCalls ==
    /\ [](AtMostOnce /\ Len(calls) <= Cardinality(Endpoints))
    /\ <>(Done /\ result.status = "returned")

\* C30 witness: all six endpoints were queried, the first four without
\* yielding data, and the request has returned.
C30_Witness ==
    /\ Done
    /\ result.status = "returned"
    /\ Len(calls) = 6
    /\ \A i \in 1..4 : calls[i].outcome # "data"

====
